---- MODULE Spec2Model ----
(***************************************************************************)
(* Model of the adnet-agent event-chain batching and settlement engine:    *)
(* the per-domain, disk-persisted AdnetAgent (addEventToChain,             *)
(* flushEvents, getDomainState, saveDomainState, recordFlushHistory) and   *)
(* the BlockchainService singleton it settles through.                     *)
(*                                                                         *)
(* The repository holds two disk-persisted revisions of AdnetAgent: the    *)
(* one in src/index.mjs ("index") and the one in src/unnamed/part_002      *)
(* lines 345-1371 ("part002").  They share getDomainState, saveDomainState,*)
(* addEventToChain and the shape of flushEvents and differ in what         *)
(* flushEvents records; the variable `variant` fixes the revision a        *)
(* behaviour runs.                                                         *)
(*                                                                         *)
(* JavaScript runs one handler at a time; an async function gives up the   *)
(* thread only at an await that waits for I/O.  Every action below is the  *)
(* code between two such awaits.                                           *)
(***************************************************************************)
EXTENDS Integers, Sequences, FiniteSets, TLC

\* ---------------------------------------------------------------- bounds
MaxEvents == 3
MaxFlushes == 2
MaxTime == 1
MaxPartition == 3
MaxHashLength == 66
MaxRequests == 4

\* ------------------------------------------------------ program constants
\* this.threshold = config.threshold || 5: the configured threshold of the run.
Threshold == 2

Variants == {"index", "part002"}
Domains == {"d1", "d2"}
CampaignIds == {"c1", "c2"}
EventTypes == {"view", "click"}

\* The request bodies POST /record is driven with: views of c1 signed by
\* the wallet 0xa they name, with 10 notabot points; clicks of c1 without
\* address and signature; views of c2 that name 0xb and are signed by 0xa.
\* A signature is kept as its signer (the checksummed, mixed-case address
\* ethers recovers) and the message it was made over; a signature that is
\* not a signature at all has the signer "malformed".  None of these bodies
\* names a placement; all carry the client timestamp 1.
NoSignature == [signer |-> "none", campaignId |-> "none", type |-> "none",
                timestamp |-> 0]

RecordBodies ==
  {[campaignId |-> "c1", type |-> "view", userAddress |-> "0xa", points |-> 10,
    timestamp |-> 1,
    signature |-> [signer |-> "0xA", campaignId |-> "c1", type |-> "view",
                   timestamp |-> 1],
    placement |-> "none"],
   [campaignId |-> "c1", type |-> "click", userAddress |-> "none", points |-> 0,
    timestamp |-> 1,
    signature |-> NoSignature, placement |-> "none"],
   [campaignId |-> "c2", type |-> "view", userAddress |-> "0xb", points |-> 10,
    timestamp |-> 1,
    signature |-> [signer |-> "0xA", campaignId |-> "c2", type |-> "view",
                   timestamp |-> 1],
    placement |-> "none"]}

\* The factory's directory (GET /api/ads?active=true): c1 has a campaign
\* contract, c2 has none.
FactoryContracts == {[id |-> "c1", contractAddress |-> "0xC1"],
                     [id |-> "c2", contractAddress |-> "none"]}

\* ~/.epistery/<domain>/config.ini: d1 carries provider.rpc and
\* wallet.privateKey, d2 carries neither.
DomainHasWallet(domain) == domain = "d1"

\* '000...0' (64 hex zeros)
GenesisHash == <<"genesis">>

NotLoaded == [loaded |-> FALSE]
NoCid == 0

\* No cleanup() call made: the process is serving requests.
Running == [pc |-> "running", order |-> <<>>, idx |-> 0, awaiting |-> 0,
            flushed |-> {}, failed |-> {}, appended |-> FALSE]

\* No call of a pure function made, none returned.
NoCall == [fn |-> "none"]

VARIABLES
  variant,        \* which revision of AdnetAgent runs
  domainStates,   \* this.domainStates: Map domain -> {eventChain, lastHash, flushCount}
  eventsFile,     \* data/<domain>/events.json
  batchFile,      \* data/<domain>/batch.json
  historyFile,    \* data/<domain>/history.json
  campaignsCache, \* this.campaignsCache
  blockchain,     \* blockchainService {enabled, initialized} and agent.blockchainInitialized
  flushes,        \* the flushEvents calls: position, partitions, results
  now,            \* Date.now()
  nextId,         \* number of record requests accepted so far
  ipfs,           \* the blob store: the data wallets uploaded so far
  contractCalls,  \* the submitBatch transactions sent to campaign contracts
  input,          \* the arguments of a function or request examined by itself
  output,         \* what that function returned, what the request was answered
  placementsFile, \* data/<domain>/placements.json
  shutdown        \* the cleanup() call on shutdown: position, tenants visited

vars == <<variant, domainStates, eventsFile, batchFile, historyFile,
          campaignsCache, blockchain, flushes, now, nextId, ipfs, contractCalls,
          input, output, placementsFile, shutdown>>

FlushIds == 1..MaxFlushes

\* ---------------------------------------------------------------- hashing
\* sha256 over JSON.stringify({...event, previousHash}): every field of the
\* event is hashed; the digest is kept as the tuple of what was hashed (a
\* collision-free digest).
hashEvent(event, previousHash) == <<"event", event, previousHash>>

TimeHash_Genesis(t) == GenesisHash

\* crypto.createHash('sha256').update(Date.now().toString()).digest('hex')
TimeHash(t) == <<"time", t>>

\* String.prototype.toLowerCase on the addresses of the model.
toLowerCase(address) ==
  CASE address = "0xA" -> "0xa"
    [] address = "0xB" -> "0xb"
    [] address = "0xOther" -> "0xother"
    [] OTHER -> address

\* ethers.verifyMessage(message, signature) throws for a signature it
\* cannot parse.
RecoveryThrows(signature) == signature.signer = "malformed"

\* ethers.verifyMessage(message, signature) with the message
\* `adnet:${campaignId}:${type}:${timestamp}`: the signer's address when the
\* signature was made over this message, some other address otherwise.
RecoveredAddress(signature, campaignId, type, timestamp) ==
  IF /\ signature.campaignId = campaignId
     /\ signature.type = type
     /\ signature.timestamp = timestamp
    THEN signature.signer
    ELSE "0xOther"

\* userAddress.toLowerCase() throws a TypeError when the body's
\* userAddress is not a string (kept as "number").
ToLowerCaseThrows(userAddress) == userAddress = "number"

AddressesMatch_Any(recoveredAddress, userAddress) == TRUE

\* recoveredAddress.toLowerCase() === userAddress.toLowerCase()
AddressesMatch(recoveredAddress, userAddress) ==
  toLowerCase(recoveredAddress) = toLowerCase(userAddress)

VerifyCatch_Rethrow(error) ==
  [verified |-> FALSE, address |-> "none", threw |-> TRUE]

\* The catch block of verifyEventSignature.
VerifyCatch(error) ==
  [verified |-> FALSE, address |-> "none", threw |-> FALSE]

\* verifyEventSignature: {verified, address}; threw tells whether the call
\* ended with an exception.  (index.mjs asks verifyDelegationToken instead
\* and keeps the answer as userVerified; none of its code reads that field
\* again.)
verifyEventSignature(userAddress, signature, campaignId, type, timestamp) ==
  IF userAddress = "none" \/ signature = NoSignature
    THEN [verified |-> FALSE, address |-> "none", threw |-> FALSE]
  ELSE IF RecoveryThrows(signature)
    THEN VerifyCatch("invalid signature")
  ELSE IF ToLowerCaseThrows(userAddress)
    THEN VerifyCatch("userAddress.toLowerCase is not a function")
  ELSE IF AddressesMatch(RecoveredAddress(signature, campaignId, type, timestamp),
                         userAddress)
    THEN [verified |-> TRUE,
          address |-> toLowerCase(RecoveredAddress(signature, campaignId, type,
                                                   timestamp)),
          threw |-> FALSE]
    ELSE [verified |-> FALSE, address |-> "none", threw |-> FALSE]

\* ------------------------------------------------------------- disk state
\* getDomainFiles writes these defaults when a file does not exist.
InitEventsFile == [events |-> <<>>, lastHash |-> GenesisHash]
InitBatchFile == [chain |-> <<>>, lastHash |-> GenesisHash, flushCount |-> 0]
InitHistoryFile == [flushes |-> <<>>, totalEvents |-> 0, totalViews |-> 0, totalClicks |-> 0]

\* placements.json: per placement id its totals; a placement that has not
\* been seen has no entry.
PlacementIds == {"p1"}
InitPlacementsFile ==
  [p \in PlacementIds |-> [seen |-> FALSE, impressions |-> 0, clicks |-> 0]]

\* updatePlacementMetrics (part_002 revision): nothing without a placement
\* id, else create the entry if new and count the view or the click.
updatePlacementMetrics(file, placement, eventType) ==
  IF placement = "none" THEN file
  ELSE [file EXCEPT ![placement] =
          [seen |-> TRUE,
           impressions |-> IF eventType = "view" THEN @.impressions + 1 ELSE @.impressions,
           clicks |-> IF eventType = "click" THEN @.clicks + 1 ELSE @.clicks]]

\* getDomainState: the in-memory state, read from events.json and batch.json
\* when the domain is not in the map yet.
getDomainState(domain) ==
  IF domainStates[domain].loaded
    THEN domainStates[domain]
    ELSE [loaded |-> TRUE,
          eventChain |-> eventsFile[domain].events,
          lastHash |-> eventsFile[domain].lastHash,
          flushCount |-> batchFile[domain].flushCount]

SavedEvents_BeforePush(state) ==
  [events |-> SubSeq(state.eventChain, 1, Len(state.eventChain) - 1),
   lastHash |-> state.lastHash]

\* saveDomainState: what it writes to events.json and to batch.json.
SavedEvents(state) == [events |-> state.eventChain, lastHash |-> state.lastHash]
SavedBatch(state) == [chain |-> state.eventChain, lastHash |-> state.lastHash,
                      flushCount |-> state.flushCount]

\* ------------------------------------------------------------ flushEvents
CountType(events, type) == Len(SelectSeq(events, LAMBDA e : e.type = type))

\* const MIN_NOTABOT_SCORE = 10
MIN_NOTABOT_SCORE == 10

\* events.filter(e => e.type === 'view')
ViewsOf(events) == SelectSeq(events, LAMBDA e : e.type = "view")

VerifiedViewers_AnyType(events) ==
  {events[i].userAddress : i \in {j \in 1..Len(events) :
       /\ events[j].verified /\ events[j].userAddress # "none"
       /\ events[j].notabotScore >= MIN_NOTABOT_SCORE}}

\* The reach loop of flushEvents: the Set verifiedViewers collects the
\* userAddress of every view with `e.verified && e.userAddress` and
\* `e.notabotScore >= MIN_NOTABOT_SCORE` (null is kept as "none").
VerifiedViewers(events) ==
  LET views == ViewsOf(events)
  IN {views[i].userAddress : i \in {j \in 1..Len(views) :
        /\ views[j].verified /\ views[j].userAddress # "none"
        /\ views[j].notabotScore >= MIN_NOTABOT_SCORE}}

\* The two counters of the same loop.
UnverifiedViews(events) ==
  Len(SelectSeq(ViewsOf(events), LAMBDA e : ~(e.verified /\ e.userAddress # "none")))
LowNotabotViews(events) ==
  Len(SelectSeq(ViewsOf(events), LAMBDA e :
        /\ e.verified /\ e.userAddress # "none"
        /\ ~(e.notabotScore >= MIN_NOTABOT_SCORE)))

\* const reach = verifiedViewers.size
Reach(events) == Cardinality(VerifiedViewers(events))

\* The grouping loop of flushEvents: one partition per campaignId, in the
\* order in which the campaigns first occur in the chain (Object.entries
\* keeps insertion order for non-numeric keys), events in chain order.
RECURSIVE eventsByCampaign(_)
eventsByCampaign(chain) ==
  IF chain = <<>> THEN <<>>
  ELSE LET before == eventsByCampaign(SubSeq(chain, 1, Len(chain) - 1))
           event == chain[Len(chain)]
           known == {k \in 1..Len(before) : before[k].campaignId = event.campaignId}
       IN IF known = {}
            THEN Append(before, [campaignId |-> event.campaignId, events |-> <<event>>])
            ELSE LET k == CHOOSE k \in known : TRUE
                 IN [before EXCEPT ![k].events = Append(@, event)]

recordFlushHistory_ViewsOnly(history, campaignId, events, ipfsHash, success) ==
  [flushes |-> Append(history.flushes,
                 [campaignId |-> campaignId,
                  eventCount |-> Len(events),
                  views |-> CountType(events, "view"),
                  clicks |-> CountType(events, "click"),
                  ipfsHash |-> ipfsHash,
                  success |-> success]),
   totalEvents |-> history.totalEvents + Len(events),
   totalViews |-> history.totalViews + CountType(events, "view"),
   totalClicks |-> history.totalClicks]

recordFlushHistory_Overwrite(history, campaignId, events, ipfsHash, success) ==
  [flushes |-> <<[campaignId |-> campaignId,
                  eventCount |-> Len(events),
                  views |-> CountType(events, "view"),
                  clicks |-> CountType(events, "click"),
                  ipfsHash |-> ipfsHash,
                  success |-> success]>>,
   totalEvents |-> history.totalEvents + Len(events),
   totalViews |-> history.totalViews + CountType(events, "view"),
   totalClicks |-> history.totalClicks + CountType(events, "click")]

\* recordFlushHistory: push one record and add to the totals.
recordFlushHistory(history, campaignId, events, ipfsHash, success) ==
  [flushes |-> Append(history.flushes,
                 [campaignId |-> campaignId,
                  eventCount |-> Len(events),
                  views |-> CountType(events, "view"),
                  clicks |-> CountType(events, "click"),
                  ipfsHash |-> ipfsHash,
                  success |-> success]),
   totalEvents |-> history.totalEvents + Len(events),
   totalViews |-> history.totalViews + CountType(events, "view"),
   totalClicks |-> history.totalClicks + CountType(events, "click")]

\* Whether flushEvents writes a history record for a partition whose upload
\* returned null: index.mjs records every partition (success = !!ipfsResult),
\* the part_002 revision records inside `if (ipfsResult)` only.
RecordsFailedUpload(v) == v = "index"

\* The `state.flushCount++` before the final save: present in index.mjs,
\* absent from the part_002 revision.
FlushCountAfterFlush(v, flushCount) == IF v = "index" THEN flushCount + 1 ELSE flushCount

ContractAddress_Any(cache, campaignId) == "0xC1"

\* this.campaignsCache.find(c => c.id === campaignId)?.contractAddress
ContractAddress(cache, campaignId) ==
  IF \E c \in cache : c.id = campaignId
    THEN (CHOOSE c \in cache : c.id = campaignId).contractAddress
    ELSE "none"

\* The argument that reaches submitBatch's `lastHash` parameter.
\* part_002 calls submitBatch(addr, cid, views, clicks, state.lastHash);
\* index.mjs calls submitBatch(addr, cid, views, clicks, events.length,
\* state.lastHash) against the five-parameter submitBatch of blockchain.mjs,
\* so its fifth argument, events.length, is bound to lastHash.
LastHashArgument(v, events, lastHash) ==
  IF v = "index" THEN [kind |-> "number", value |-> Len(events)]
                 ELSE [kind |-> "string", value |-> lastHash]

\* _formatBytes32 calls hash.startsWith: a TypeError for a non-zero number,
\* which submitBatch's try/catch turns into `return null` before any
\* contract call is made.
FormatBytes32Throws(arg) == arg.kind = "number" /\ arg.value # 0

IdleFlush == [pc |-> "idle", domain |-> "none", trigger |-> "none", parts |-> <<>>,
              idx |-> 0, results |-> <<>>, walletHash |-> GenesisHash,
              cid |-> NoCid, call |-> 0]

HasFreeFlush == \E f \in FlushIds : flushes[f].pc = "idle"
FreeFlush == CHOOSE f \in FlushIds :
               flushes[f].pc = "idle" /\ \A g \in FlushIds : g < f => flushes[g].pc # "idle"

\* The router middleware in front of every route: the first request after
\* start-up initialises the blockchain service from the config of the
\* domain that request came for; later requests skip it.
Middleware(domain) ==
  IF blockchain.agentInitialized THEN blockchain
  ELSE [agentInitialized |-> TRUE,
        initialized |-> DomainHasWallet(domain),
        enabled |-> DomainHasWallet(domain),
        wallet |-> IF DomainHasWallet(domain) THEN domain ELSE "none"]

ClearedState_KeepTail(state, t) ==
  [state EXCEPT !.eventChain = <<>>,
                !.flushCount = FlushCountAfterFlush(variant, @)]

\* The three statements after the partition loop of flushEvents:
\* state.eventChain = []; state.lastHash = sha256(Date.now()); and, in
\* index.mjs, state.flushCount++.
ClearedState(state, t) ==
  [state EXCEPT !.eventChain = <<>>,
                !.lastHash = TimeHash(t),
                !.flushCount = FlushCountAfterFlush(variant, @)]

\* The partition loop of flushEvents from the top of an iteration, for the
\* call in slot f with local state fl: start the upload of the next partition
\* (its data wallet carries state.lastHash as read now) and wait for it, or,
\* with no partition left, clear the chain, save and return the results.
\* state, events and batch are the domain's in-memory state and its two
\* files as the handler has left them so far.
\* saveThrows tells whether the first writeFileSync of the closing
\* saveDomainState throws: the chain is then cleared in memory only and the
\* call ends with that exception.
ContinueFlushSave(f, fl, state, events, batch, results, history, saveThrows) ==
  LET domain == fl.domain
  IN /\ historyFile' = [historyFile EXCEPT ![domain] = history]
     /\ IF fl.idx < Len(fl.parts)
          THEN /\ ~saveThrows
               /\ flushes' = [flushes EXCEPT ![f] =
                    [fl EXCEPT !.idx = @ + 1, !.pc = "upload", !.results = results,
                               !.walletHash = state.lastHash, !.cid = NoCid, !.call = 0]]
               /\ domainStates' = [domainStates EXCEPT ![domain] = state]
               /\ eventsFile' = [eventsFile EXCEPT ![domain] = events]
               /\ batchFile' = [batchFile EXCEPT ![domain] = batch]
               /\ now' = now
          ELSE \E t \in now..MaxTime :
                 LET cleared == ClearedState(state, t)
                 IN /\ now' = t
                    /\ domainStates' = [domainStates EXCEPT ![domain] = cleared]
                    /\ eventsFile' = [eventsFile EXCEPT ![domain] =
                                        IF saveThrows THEN events ELSE SavedEvents(cleared)]
                    /\ batchFile' = [batchFile EXCEPT ![domain] =
                                       IF saveThrows THEN batch ELSE SavedBatch(cleared)]
                    /\ flushes' = [flushes EXCEPT ![f] =
                         [fl EXCEPT !.pc = IF saveThrows THEN "threw" ELSE "done",
                                    !.results = results, !.cid = NoCid, !.call = 0]]

\* The partition loop when every write of saveDomainState succeeds.
ContinueFlush(f, fl, state, events, batch, results, history) ==
  ContinueFlushSave(f, fl, state, events, batch, results, history, FALSE)

ReturnsEmpty_NoEarlyReturn(state) == FALSE

\* `if (state.eventChain.length === 0) return [];`
ReturnsEmpty(state) == state.eventChain = <<>>

\* flushEvents from its entry to its first await: return [] on an empty
\* chain, else group the chain by campaign and enter the partition loop.
BeginFlush(f, domain, state, events, batch, trigger) ==
  IF ReturnsEmpty(state)
    THEN /\ flushes' = [flushes EXCEPT ![f] =
                [IdleFlush EXCEPT !.pc = "done", !.domain = domain, !.trigger = trigger]]
         /\ domainStates' = [domainStates EXCEPT ![domain] = state]
         /\ eventsFile' = [eventsFile EXCEPT ![domain] = events]
         /\ batchFile' = [batchFile EXCEPT ![domain] = batch]
         /\ UNCHANGED <<historyFile, now>>
    ELSE ContinueFlush(f, [IdleFlush EXCEPT !.domain = domain, !.trigger = trigger,
                                            !.parts = eventsByCampaign(state.eventChain)],
                       state, events, batch, <<>>, historyFile[domain])

\* ----------------------------------------------------------------- state
Init ==
  /\ variant \in Variants
  /\ domainStates = [d \in Domains |-> NotLoaded]
  /\ eventsFile = [d \in Domains |-> InitEventsFile]
  /\ batchFile = [d \in Domains |-> InitBatchFile]
  /\ historyFile = [d \in Domains |-> InitHistoryFile]
  /\ campaignsCache = {}
  /\ blockchain = [agentInitialized |-> FALSE, initialized |-> FALSE,
                   enabled |-> FALSE, wallet |-> "none"]
  /\ flushes = [f \in FlushIds |-> IdleFlush]
  /\ now = 0
  /\ nextId = 0
  /\ ipfs = <<>>
  /\ contractCalls = <<>>
  /\ input = NoCall
  /\ output = NoCall
  /\ placementsFile = [d \in Domains |-> InitPlacementsFile]
  /\ shutdown = Running

\* --------------------------------------------------------------- actions
ChainEvent_IndexFromOne(state, event) ==
  LET hash == hashEvent(event, state.lastHash)
      chainedEvent == [id |-> event.id, campaignId |-> event.campaignId,
                       type |-> event.type, userAddress |-> event.userAddress,
                       verified |-> event.verified,
                       notabotScore |-> event.notabotScore,
                       placement |-> event.placement, hash |-> hash,
                       previousHash |-> state.lastHash,
                       chainIndex |-> Len(state.eventChain) + 1]
  IN [state EXCEPT !.eventChain = Append(@, chainedEvent), !.lastHash = hash]

ChainEvent_StaleTail(state, event) ==
  LET hash == hashEvent(event, state.lastHash)
      chainedEvent == [id |-> event.id, campaignId |-> event.campaignId,
                       type |-> event.type, userAddress |-> event.userAddress,
                       verified |-> event.verified,
                       notabotScore |-> event.notabotScore,
                       placement |-> event.placement, hash |-> hash,
                       previousHash |-> state.lastHash,
                       chainIndex |-> Len(state.eventChain)]
  IN [state EXCEPT !.eventChain = Append(@, chainedEvent)]

\* The first half of addEventToChain: hash the event over state.lastHash,
\* push the chained event and move lastHash to its hash.
ChainEvent(state, event) ==
  LET hash == hashEvent(event, state.lastHash)
      chainedEvent == [id |-> event.id, campaignId |-> event.campaignId,
                       type |-> event.type, userAddress |-> event.userAddress,
                       verified |-> event.verified,
                       notabotScore |-> event.notabotScore,
                       placement |-> event.placement, hash |-> hash,
                       previousHash |-> state.lastHash,
                       chainIndex |-> Len(state.eventChain)]
  IN [state EXCEPT !.eventChain = Append(@, chainedEvent), !.lastHash = hash]

\* `if (state.eventChain.length >= this.threshold)`
ReachedThreshold(state) == Len(state.eventChain) >= Threshold

\* addEventToChain: chain the event, save, and call flushEvents (not
\* awaited) once the chain has reached the threshold.
addEventToChain(domain, event) ==
  LET appended == ChainEvent(getDomainState(domain), event)
  IN IF ReachedThreshold(appended)
       THEN /\ HasFreeFlush
            /\ BeginFlush(FreeFlush, domain, appended, SavedEvents(appended),
                          SavedBatch(appended), "threshold")
       ELSE /\ domainStates' = [domainStates EXCEPT ![domain] = appended]
            /\ eventsFile' = [eventsFile EXCEPT ![domain] = SavedEvents(appended)]
            /\ batchFile' = [batchFile EXCEPT ![domain] = SavedBatch(appended)]
            /\ UNCHANGED <<flushes, historyFile, now>>

ActorAddress_AsClaimed(verification, userAddress) == userAddress

\* `userAddress: verification.verified ? verification.address : null`
ActorAddress(verification, userAddress) ==
  IF verification.verified THEN verification.address ELSE "none"

\* Whether the handler reaches the file operations of
\* updatePlacementMetrics (readFileSync, JSON.parse, writeFileSync), which
\* can throw.
UpdatesPlacement(v, body) == v = "part002" /\ body.placement # "none"

\* POST /record past its validation: verify the signature, build the
\* event, chain it and, in the part_002 revision, count it for the
\* placement the body names; placementThrows tells whether that
\* bookkeeping throws, which leaves placements.json as it was.
RecordValid(domain, body, placementThrows) ==
  /\ nextId < MaxEvents
  /\ placementThrows => UpdatesPlacement(variant, body)
  /\ LET verification == verifyEventSignature(body.userAddress, body.signature,
                                              body.campaignId, body.type,
                                              body.timestamp)
     IN addEventToChain(domain, [id |-> nextId + 1,
                                 campaignId |-> body.campaignId,
                                 type |-> body.type,
                                 userAddress |-> ActorAddress(verification,
                                                              body.userAddress),
                                 verified |-> verification.verified,
                                 notabotScore |-> body.points,
                                 placement |-> IF variant = "part002"
                                                 THEN body.placement ELSE "none"])
  /\ nextId' = nextId + 1
  /\ blockchain' = Middleware(domain)
  /\ placementsFile' =
       IF variant = "part002" /\ ~placementThrows
         THEN [placementsFile EXCEPT ![domain] =
                 updatePlacementMetrics(@, body.placement, body.type)]
         ELSE placementsFile
  /\ UNCHANGED <<variant, campaignsCache, ipfs, contractCalls>>

\* POST /record with a valid body.
Record(domain, body) ==
  /\ RecordValid(domain, body, FALSE)
  /\ UNCHANGED <<input, output, shutdown>>

\* POST /flush: flushEvents up to its first await.
ManualFlush(domain) ==
  /\ HasFreeFlush
  /\ BeginFlush(FreeFlush, domain, getDomainState(domain), eventsFile[domain],
                batchFile[domain], "manual")
  /\ blockchain' = Middleware(domain)
  /\ UNCHANGED <<variant, campaignsCache, nextId, ipfs, contractCalls, input, output,
                 placementsFile, shutdown>>

\* GET /campaigns: fetchCampaigns fills the cache from the factory.
FetchCampaigns(domain) ==
  /\ campaignsCache = {}
  /\ campaignsCache' = FactoryContracts
  /\ blockchain' = Middleware(domain)
  /\ UNCHANGED <<variant, domainStates, eventsFile, batchFile, historyFile,
                 flushes, now, nextId, ipfs, contractCalls, input, output,
                 placementsFile, shutdown>>

Submits_WhateverGateway(contractAddress, enabled) == contractAddress # "none"

\* `if (campaign?.contractAddress && blockchainService.isEnabled())`
Submits(contractAddress, enabled) == contractAddress # "none" /\ enabled

HasContentAddress_Always(ipfsResult) == TRUE

\* `if (ipfsResult)`: uploadToIPFS returned a content address, not null.
HasContentAddress(ipfsResult) == ipfsResult # NoCid

\* flushEvents resumes after `await this.uploadToIPFS(dataWallet)`;
\* uploaded is FALSE when uploadToIPFS returned null.
UploadReturnSave(f, uploaded, saveThrows) ==
  /\ flushes[f].pc = "upload"
  /\ LET fl == flushes[f]
         domain == fl.domain
         part == fl.parts[fl.idx]
         state == domainStates[domain]
         cid == Len(ipfs) + 1
         ipfsResult == IF uploaded THEN cid ELSE NoCid
         contractAddress == ContractAddress(campaignsCache, part.campaignId)
         arg == LastHashArgument(variant, part.events, state.lastHash)
         submits == Submits(contractAddress, blockchain.enabled)
         result == [campaignId |-> part.campaignId, success |-> uploaded]
         history == historyFile[domain]
     IN IF HasContentAddress(ipfsResult)
          THEN /\ ipfs' = IF uploaded
                            THEN Append(ipfs, [flush |-> f, domain |-> domain,
                                               campaignId |-> part.campaignId,
                                               events |-> part.events,
                                               lastHash |-> fl.walletHash])
                            ELSE ipfs
               /\ IF submits /\ ~FormatBytes32Throws(arg)
                    THEN \* submitBatch sends the transaction and awaits it
                         /\ ~saveThrows
                         /\ contractCalls' = Append(contractCalls,
                              [domain |-> domain, campaignId |-> part.campaignId,
                               contractAddress |-> contractAddress, ipfsCID |-> ipfsResult,
                               impressions |-> CountType(part.events, "view"),
                               clicks |-> CountType(part.events, "click"),
                               lastHash |-> arg.value, wallet |-> blockchain.wallet,
                               outcome |-> "pending"])
                         /\ flushes' = [flushes EXCEPT ![f] =
                              [fl EXCEPT !.pc = "submit", !.cid = ipfsResult,
                                         !.call = Len(contractCalls) + 1]]
                         /\ UNCHANGED <<domainStates, eventsFile, batchFile, historyFile, now>>
                    ELSE \* no submission, or submitBatch returned null at once
                         /\ UNCHANGED contractCalls
                         /\ ContinueFlushSave(f, fl, state, eventsFile[domain],
                                              batchFile[domain],
                                              Append(fl.results, result),
                                              recordFlushHistory(history, part.campaignId,
                                                                 part.events, ipfsResult, TRUE),
                                              saveThrows)
          ELSE /\ UNCHANGED <<ipfs, contractCalls>>
               /\ ContinueFlushSave(f, fl, state, eventsFile[domain], batchFile[domain],
                                    Append(fl.results, result),
                                    IF RecordsFailedUpload(variant)
                                      THEN recordFlushHistory(history, part.campaignId,
                                                              part.events, NoCid, FALSE)
                                      ELSE history,
                                    saveThrows)
  /\ UNCHANGED <<variant, campaignsCache, blockchain, nextId, input, output,
                 placementsFile, shutdown>>

\* The same when every write of saveDomainState succeeds.
UploadReturn(f, uploaded) == UploadReturnSave(f, uploaded, FALSE)

\* What happens to a transaction sent by submitBatch: it is confirmed, or it
\* is rejected (the contract reverts; an RPC failure takes the same path
\* through submitBatch's catch).
SubmitOutcomes == {"confirmed", "rejected"}

\* flushEvents resumes after `await blockchainService.submitBatch(...)`,
\* which returns the transaction's receipt or null.
SubmitReturnSave(f, outcome, saveThrows) ==
  /\ flushes[f].pc = "submit"
  /\ LET fl == flushes[f]
         domain == fl.domain
         part == fl.parts[fl.idx]
     IN /\ contractCalls' = [contractCalls EXCEPT ![fl.call].outcome = outcome]
        /\ ContinueFlushSave(f, fl, domainStates[domain], eventsFile[domain],
                             batchFile[domain],
                             Append(fl.results, [campaignId |-> part.campaignId, success |-> TRUE]),
                             recordFlushHistory(historyFile[domain], part.campaignId,
                                                part.events, fl.cid, TRUE),
                             saveThrows)
  /\ UNCHANGED <<variant, campaignsCache, blockchain, nextId, ipfs, input, output,
                 placementsFile, shutdown>>

\* The same when every write of saveDomainState succeeds.
SubmitReturn(f, outcome) == SubmitReturnSave(f, outcome, FALSE)

\* The process dies and is started again: memory is lost, the files stay.
Crash ==
  /\ \/ \E d \in Domains : domainStates[d].loaded
     \/ blockchain.agentInitialized
  /\ domainStates' = [d \in Domains |-> NotLoaded]
  /\ campaignsCache' = {}
  /\ blockchain' = [agentInitialized |-> FALSE, initialized |-> FALSE,
                    enabled |-> FALSE, wallet |-> "none"]
  /\ flushes' = [f \in FlushIds |->
                   IF flushes[f].pc \in {"upload", "submit"}
                     THEN [flushes[f] EXCEPT !.pc = "dead"]
                     ELSE flushes[f]]
  /\ UNCHANGED <<variant, eventsFile, batchFile, historyFile, now, nextId,
                 ipfs, contractCalls, input, output,
                 placementsFile, shutdown>>

\* The tenants whose requests Spec follows.
Tenants == {"d1"}

Next ==
  \/ \E d \in Tenants, body \in RecordBodies : Record(d, body)
  \/ \E d \in Tenants : ManualFlush(d)
  \/ \E d \in Tenants : FetchCampaigns(d)
  \/ \E f \in FlushIds, uploaded \in BOOLEAN : UploadReturn(f, uploaded)
  \/ \E f \in FlushIds, outcome \in SubmitOutcomes : SubmitReturn(f, outcome)
  \/ Crash

Spec == Init /\ [][Next]_vars

\* Two tenants served by one process between two restarts: the requests of
\* d1 and of d2 interleave.
NextTenants ==
  \/ \E d \in Domains, body \in RecordBodies : Record(d, body)
  \/ \E d \in Domains : ManualFlush(d)
  \/ \E d \in Domains : FetchCampaigns(d)
  \/ \E f \in FlushIds, uploaded \in BOOLEAN : UploadReturn(f, uploaded)
  \/ \E f \in FlushIds, outcome \in SubmitOutcomes : SubmitReturn(f, outcome)

SpecTenants == Init /\ [][NextTenants]_vars

\* ------------------------------------------- POST /record with any body
\* Bodies the validation of POST /record turns away: no campaignId, no
\* type, a type that is neither view nor click; each names placement p1.
InvalidBodies ==
  {[campaignId |-> "none", type |-> "view", userAddress |-> "none", points |-> 0,
    timestamp |-> 1, signature |-> NoSignature, placement |-> "p1"],
   [campaignId |-> "c1", type |-> "none", userAddress |-> "none", points |-> 0,
    timestamp |-> 1, signature |-> NoSignature, placement |-> "p1"],
   [campaignId |-> "c1", type |-> "hover", userAddress |-> "none", points |-> 0,
    timestamp |-> 1, signature |-> NoSignature, placement |-> "p1"]}

\* The bodies POST /record is driven with here: those of RecordBodies, a
\* click of c1 on placement p1, a view of c2 whose signature is malformed,
\* and the invalid ones.
PostBodies ==
  RecordBodies
    \cup {[campaignId |-> "c1", type |-> "click", userAddress |-> "none", points |-> 0,
           timestamp |-> 1, signature |-> NoSignature, placement |-> "p1"],
          [campaignId |-> "c2", type |-> "view", userAddress |-> "0xb", points |-> 10,
           timestamp |-> 1,
           signature |-> [signer |-> "malformed", campaignId |-> "none",
                          type |-> "none", timestamp |-> 0],
           placement |-> "none"]}
    \cup InvalidBodies

NoBody == [campaignId |-> "none", type |-> "none", userAddress |-> "none", points |-> 0,
           timestamp |-> 0, signature |-> NoSignature, placement |-> "none"]

ValidBody_Any(body) == TRUE

\* The status the handler answers a request it has chained: success, or,
\* from its catch block, 500 when updatePlacementMetrics threw.
RespondAfterThrow(placementThrows) == IF placementThrows THEN 500 ELSE 200

\* The two checks at the top of the handler:
\* `!campaignId || !type` and `!['view', 'click'].includes(type)`.
ValidBody(body) ==
  /\ ~(body.campaignId = "none" \/ body.type = "none")
  /\ body.type \in {"view", "click"}

\* POST /record, the whole handler behind the middleware: a body that fails
\* the validation is answered 400 at once; any other body is recorded and
\* answered with status success, or with 500 when the placement
\* bookkeeping threw.  input keeps the request, its number and whether the
\* bookkeeping threw, output the answer.
PostRecord(domain, body, placementThrows) ==
  /\ input.seq < MaxRequests
  /\ input' = [fn |-> "record", seq |-> input.seq + 1, body |-> body,
               placementThrows |-> placementThrows]
  /\ IF ValidBody(body)
       THEN /\ RecordValid(domain, body, placementThrows)
            /\ output' = [fn |-> "record", status |-> RespondAfterThrow(placementThrows)]
            /\ UNCHANGED shutdown
       ELSE /\ ~placementThrows
            /\ blockchain' = Middleware(domain)
            /\ output' = [fn |-> "record", status |-> 400]
            /\ UNCHANGED <<variant, domainStates, eventsFile, batchFile, historyFile,
                           campaignsCache, flushes, now, nextId, ipfs, contractCalls,
                           placementsFile, shutdown>>

InitRecord ==
  /\ variant \in Variants
  /\ domainStates = [d \in Domains |-> NotLoaded]
  /\ eventsFile = [d \in Domains |-> InitEventsFile]
  /\ batchFile = [d \in Domains |-> InitBatchFile]
  /\ historyFile = [d \in Domains |-> InitHistoryFile]
  /\ placementsFile = [d \in Domains |-> InitPlacementsFile]
  /\ campaignsCache = {}
  /\ blockchain = [agentInitialized |-> FALSE, initialized |-> FALSE,
                   enabled |-> FALSE, wallet |-> "none"]
  /\ flushes = [f \in FlushIds |-> IdleFlush]
  /\ now = 0
  /\ nextId = 0
  /\ ipfs = <<>>
  /\ contractCalls = <<>>
  /\ input = [fn |-> "record", seq |-> 0, body |-> NoBody, placementThrows |-> FALSE]
  /\ output = NoCall
  /\ shutdown = Running

NextRecord ==
  \/ \E d \in Tenants, body \in PostBodies, placementThrows \in BOOLEAN :
       PostRecord(d, body, placementThrows)
  \/ \E d \in Tenants : FetchCampaigns(d)
  \/ \E f \in FlushIds, uploaded \in BOOLEAN : UploadReturn(f, uploaded)
  \/ \E f \in FlushIds, outcome \in SubmitOutcomes : SubmitReturn(f, outcome)

SpecRecord == InitRecord /\ [][NextRecord]_vars

\* ------------------------------------------------- functions by themselves
agentVars == <<variant, domainStates, eventsFile, batchFile, historyFile,
               campaignsCache, blockchain, flushes, now, nextId, ipfs, contractCalls,
               placementsFile, shutdown>>

\* The agent as constructed, in the part_002 revision.
AtRest ==
  /\ variant = "part002"
  /\ shutdown = Running
  /\ placementsFile = [d \in Domains |-> InitPlacementsFile]
  /\ domainStates = [d \in Domains |-> NotLoaded]
  /\ eventsFile = [d \in Domains |-> InitEventsFile]
  /\ batchFile = [d \in Domains |-> InitBatchFile]
  /\ historyFile = [d \in Domains |-> InitHistoryFile]
  /\ campaignsCache = {}
  /\ blockchain = [agentInitialized |-> FALSE, initialized |-> FALSE,
                   enabled |-> FALSE, wallet |-> "none"]
  /\ flushes = [f \in FlushIds |-> IdleFlush]
  /\ now = 0
  /\ nextId = 0
  /\ ipfs = <<>>
  /\ contractCalls = <<>>

\* The wallet addresses of users, as verifyEventSignature returns them.
Addresses == {"0xa", "0xb"}

\* event.notabotScore = notabotScore?.points || 0
NotabotScores == {0, 9, 10}

\* The events POST /record builds, as far as the reach loop reads them:
\* userAddress is the recovered address of a verified event, null otherwise.
ReachEvents ==
  {e \in [type : EventTypes, userAddress : Addresses \cup {"none"},
          verified : BOOLEAN, notabotScore : NotabotScores] :
     e.verified <=> e.userAddress # "none"}

\* The partitions of up to MaxPartition events.
ReachPartitions == UNION {[1..n -> ReachEvents] : n \in 0..MaxPartition}

InitReach ==
  /\ AtRest
  /\ input \in {[fn |-> "reach", events |-> events] : events \in ReachPartitions}
  /\ output = NoCall

\* One iteration of the partition loop up to `const reach = ...`.
ComputeReach ==
  /\ input.fn = "reach"
  /\ output = NoCall
  /\ output' = [fn |-> "reach",
                reach |-> Reach(input.events),
                unverifiedViews |-> UnverifiedViews(input.events),
                lowNotabotViews |-> LowNotabotViews(input.events)]
  /\ UNCHANGED <<agentVars, input>>

SpecReach == InitReach /\ [][ComputeReach]_vars

\* ------------------------------------- flushEvents: grouping by campaign
\* Names every object literal inherits from Object.prototype, of which
\* "constructor" is one: `eventsByCampaign[name]` is truthy before anything
\* was stored under it.
InheritedKeys == {"constructor"}

\* body.campaignId is any truthy value of the request: the id of a campaign
\* or any other string.
RequestCampaignIds == CampaignIds \cup InheritedKeys

\* `if (!eventsByCampaign[event.campaignId]) eventsByCampaign[...] = []` is
\* skipped for an inherited name, and `.push` of the inherited value is not
\* a function: the grouping loop throws a TypeError.
GroupingThrows(chain) ==
  \E i \in 1..Len(chain) : chain[i].campaignId \in InheritedKeys

\* The pending chains of up to MaxPartition events, as far as the grouping
\* loop reads them.
GroupingChains ==
  UNION {{[i \in 1..n |-> [campaignId |-> c[i].campaignId, type |-> c[i].type,
                           chainIndex |-> i - 1]] :
            c \in [1..n -> [campaignId : RequestCampaignIds, type : EventTypes]]} :
         n \in 0..MaxPartition}

InitGrouping ==
  /\ AtRest
  /\ input \in {[fn |-> "group", chain |-> chain] : chain \in GroupingChains}
  /\ output = NoCall

\* flushEvents from `const eventsByCampaign = {}` to the head of the
\* partition loop, with the views and clicks each iteration counts.
GroupEvents ==
  /\ input.fn = "group"
  /\ output = NoCall
  /\ output' =
       IF GroupingThrows(input.chain)
         THEN [fn |-> "group", threw |-> TRUE, parts |-> <<>>]
         ELSE [fn |-> "group", threw |-> FALSE,
               parts |-> [k \in 1..Len(eventsByCampaign(input.chain)) |->
                            LET part == eventsByCampaign(input.chain)[k]
                            IN [campaignId |-> part.campaignId,
                                events |-> part.events,
                                views |-> CountType(part.events, "view"),
                                clicks |-> CountType(part.events, "click")]]]
  /\ UNCHANGED <<agentVars, input>>

SpecGrouping == InitGrouping /\ [][GroupEvents]_vars

\* ------------------------------------------- hashing and the placement
\* body.placement of two requests: absent, or the id of a slot.
RequestPlacements == {"none", "p1", "p2"}

\* The tail hashes an append can find: genesis, or the digest of a clock.
TailHashes == {GenesisHash} \cup {TimeHash(t) : t \in 0..MaxTime}

\* Two requests that differ at most in their placement arrive at two agents
\* whose ledgers of the tenant are equal: empty chain, the same tail hash.
InitHash ==
  /\ AtRest
  /\ input \in {[fn |-> "hash", campaignId |-> c, type |-> t, lastHash |-> h,
                 first |-> p, second |-> q] :
                  c \in CampaignIds, t \in EventTypes, h \in TailHashes,
                  p \in RequestPlacements, q \in RequestPlacements}
  /\ output = NoCall

\* The event POST /record builds for an unsigned request with a placement.
PlacedEvent(campaignId, type, placement) ==
  [id |-> 1, campaignId |-> campaignId, type |-> type, userAddress |-> "none",
   verified |-> FALSE, notabotScore |-> 0, placement |-> placement]

\* Each agent chains its event: output keeps the two resulting ledgers.
HashPlaced ==
  /\ input.fn = "hash"
  /\ output = NoCall
  /\ LET state == [loaded |-> TRUE, eventChain |-> <<>>, lastHash |-> input.lastHash,
                   flushCount |-> 0]
     IN output' = [fn |-> "hash",
                   first |-> ChainEvent(state, PlacedEvent(input.campaignId, input.type,
                                                           input.first)),
                   second |-> ChainEvent(state, PlacedEvent(input.campaignId, input.type,
                                                            input.second))]
  /\ UNCHANGED <<agentVars, input>>

SpecHash == InitHash /\ [][HashPlaced]_vars

\* -------------------------------------- AdnetAgent.verifyEventSignature
\* The userAddress of a body: absent, not a string, or an address in lower
\* or mixed case.
ClaimedAddresses == {"none", "number", "0xa", "0xA", "0xb"}

\* The client timestamps of bodies and signed messages.
Timestamps == {1, 2}

\* The signature of a body: absent, malformed, or made by 0xA or 0xB over
\* some message.
Signatures ==
  {NoSignature,
   [signer |-> "malformed", campaignId |-> "none", type |-> "none", timestamp |-> 0]}
    \cup [signer : {"0xA", "0xB"}, campaignId : CampaignIds, type : EventTypes,
          timestamp : Timestamps]

InitVerify ==
  /\ AtRest
  /\ input \in [fn : {"verify"}, userAddress : ClaimedAddresses,
                 signature : Signatures, campaignId : CampaignIds,
                 type : EventTypes, timestamp : Timestamps]
  /\ output = NoCall

\* `const verification = this.verifyEventSignature(...)` in POST /record.
VerifyEvent ==
  /\ input.fn = "verify"
  /\ output = NoCall
  /\ LET verification == verifyEventSignature(input.userAddress, input.signature,
                                              input.campaignId, input.type,
                                              input.timestamp)
     IN output' = [fn |-> "verify", verified |-> verification.verified,
                   address |-> verification.address, threw |-> verification.threw]
  /\ UNCHANGED <<agentVars, input>>

SpecVerify == InitVerify /\ [][VerifyEvent]_vars

\* ----------------------------------------- BlockchainService.initialize
\* config.rpcUrl and config.privateKey: absent, or a value; the key
\* "invalid" makes `new ethers.Wallet` throw.
RpcUrls == {"none", "rpc1", "rpc2"}
PrivateKeys == {"none", "key1", "invalid"}

\* contracts/CampaignWallet.json: not there, not parsable, or the compiled
\* contract with its abi.
AbiFiles == {"missing", "corrupt", "abi"}

\* The service as constructed.
NewService == [fn |-> "initialize", provider |-> "none", wallet |-> "none",
               contractAbi |-> "none", enabled |-> FALSE, initialized |-> FALSE]

InitializeCatch_Retry(service) == service

\* `catch (error) { ...; this.initialized = true; }`
InitializeCatch(service) == [service EXCEPT !.initialized = TRUE]

\* BlockchainService.initialize(config); it has no await, so a call runs to
\* its end before any other.
initialize(service, config, abiFile) ==
  IF service.initialized THEN service
  ELSE IF config.rpcUrl = "none" \/ config.privateKey = "none"
    THEN [service EXCEPT !.initialized = TRUE]
  ELSE IF config.privateKey = "invalid"
    THEN InitializeCatch([service EXCEPT !.provider = config.rpcUrl])
  ELSE LET connected == [service EXCEPT !.provider = config.rpcUrl,
                                        !.wallet = config.privateKey]
       IN CASE abiFile = "missing" -> [connected EXCEPT !.initialized = TRUE]
            [] abiFile = "corrupt" -> InitializeCatch(connected)
            [] OTHER -> [connected EXCEPT !.contractAbi = "abi", !.enabled = TRUE,
                                          !.initialized = TRUE]

InitInitialize ==
  /\ AtRest
  /\ input = [fn |-> "initialize", seq |-> 0,
              config |-> [rpcUrl |-> "none", privateKey |-> "none"],
              abiFile |-> "missing"]
  /\ output = NewService

\* One call of initialize; output is the service.
Initialize(config, abiFile) ==
  /\ input.seq < MaxRequests
  /\ input' = [fn |-> "initialize", seq |-> input.seq + 1, config |-> config,
               abiFile |-> abiFile]
  /\ output' = initialize(output, config, abiFile)
  /\ UNCHANGED agentVars

NextInitialize ==
  \E config \in [rpcUrl : RpcUrls, privateKey : PrivateKeys], abiFile \in AbiFiles :
    Initialize(config, abiFile)

SpecInitialize == InitInitialize /\ [][NextInitialize]_vars

\* ---------------------------------------- BlockchainService.submitBatch
\* The values that reach submitBatch's lastHash parameter: a hash string
\* (part_002), a number of events (index.mjs), or nothing.
LastHashArguments ==
  {[kind |-> "string", value |-> h] : h \in {GenesisHash, TimeHash(0)}}
    \cup {[kind |-> "number", value |-> <<n>>] : n \in 0..MaxPartition}
    \cup {[kind |-> "undefined", value |-> <<>>]}

\* The number passed for the lastHash parameter, 0 for any other value.
NumberPassed(arg) == IF arg.kind = "number" THEN arg.value[1] ELSE 0

\* The messages of the errors a contract call or tx.wait() rejects with.
ErrorMessages == {"Budget exceeded", "Campaign inactive", "AccessControl", "network"}

InitSubmit ==
  /\ AtRest
  /\ input \in [fn : {"submitBatch"}, enabled : BOOLEAN,
                 contractAddress : {"none", "0xC1"},
                 impressions : 0..MaxPartition,
                 lastHash : LastHashArguments]
  /\ output = NoCall

SubmitCatch_Rethrow(out, message) ==
  [out EXCEPT !.pc = "threw", !.error = message]

\* The catch block of submitBatch: log by message, `return null`.
SubmitCatch(out, message) ==
  [out EXCEPT !.pc = "returned", !.result = "null", !.error = message]

\* submitBatch from its entry to `await contract.submitBatch(...)`: the two
\* early returns, then, inside the try, the Contract object (its
\* constructor may throw), _formatBytes32 and the contract call.
SubmitBatchEnter ==
  /\ input.fn = "submitBatch"
  /\ output = NoCall
  /\ LET out == [fn |-> "submitBatch", pc |-> "entered", result |-> "none",
                 sent |-> FALSE, error |-> "none", txHash |-> 0, blockNumber |-> 0]
     IN IF ~input.enabled \/ input.contractAddress = "none"
          THEN output' = [out EXCEPT !.pc = "returned", !.result = "null"]
          ELSE \E constructed \in BOOLEAN :
                 output' =
                   IF ~constructed
                     THEN SubmitCatch(out, "invalid contract")
                   ELSE IF FormatBytes32Throws(
                             [kind |-> input.lastHash.kind,
                              value |-> NumberPassed(input.lastHash)])
                     THEN SubmitCatch(out, "hash.startsWith is not a function")
                   ELSE [out EXCEPT !.pc = "sending", !.sent = TRUE]
  /\ UNCHANGED <<agentVars, input>>

\* `await contract.submitBatch(...)` settles: with the transaction, or with
\* an error that the catch block receives.
SubmitBatchSent(accepted, message) ==
  /\ output.fn = "submitBatch"
  /\ output.pc = "sending"
  /\ output' = IF accepted
                 THEN [output EXCEPT !.pc = "waiting", !.txHash = 1]
                 ELSE SubmitCatch(output, message)
  /\ UNCHANGED <<agentVars, input>>

\* `await tx.wait()` settles: with the receipt, which submitBatch returns
\* as {txHash, blockNumber, ...}, or with an error.
SubmitBatchConfirmed(confirmed, message) ==
  /\ output.fn = "submitBatch"
  /\ output.pc = "waiting"
  /\ output' = IF confirmed
                 THEN [output EXCEPT !.pc = "returned", !.result = "receipt",
                                     !.blockNumber = 1]
                 ELSE SubmitCatch(output, message)
  /\ UNCHANGED <<agentVars, input>>

NextSubmit ==
  \/ SubmitBatchEnter
  \/ \E accepted \in BOOLEAN, message \in ErrorMessages :
       SubmitBatchSent(accepted, message)
  \/ \E confirmed \in BOOLEAN, message \in ErrorMessages :
       SubmitBatchConfirmed(confirmed, message)

SpecSubmit == InitSubmit /\ [][NextSubmit]_vars

\* ------------------------------------- BlockchainService._formatBytes32
\* The number of hex digits of a bytes32: substring(0, 64), padEnd(64, '0').
Bytes32Digits == 64

\* Strings are sequences of characters.
Zeros(n) == [i \in 1..n |-> "0"]

\* hash.startsWith('0x')
StartsWith0x(str) == Len(str) >= 2 /\ str[1] = "0" /\ str[2] = "x"

\* hash.startsWith('0x') ? hash.slice(2) : hash
CleanHash(str) == IF StartsWith0x(str) THEN SubSeq(str, 3, Len(str)) ELSE str

\* cleanHash.substring(0, 64)
Substring64(str) ==
  SubSeq(str, 1, IF Len(str) < Bytes32Digits THEN Len(str) ELSE Bytes32Digits)

\* str.padEnd(64, '0')
PadEnd64(str) ==
  IF Len(str) >= Bytes32Digits THEN str ELSE str \o Zeros(Bytes32Digits - Len(str))

\* _formatBytes32(hash): a falsy hash (undefined, null, '', 0) gives 64
\* zeros; hash.startsWith throws a TypeError for a non-zero number; a string
\* is stripped of a leading '0x', cut to 64 characters and padded.
formatBytes32(hash) ==
  IF hash.kind = "undefined"
     \/ (hash.kind = "number" /\ hash.number = 0)
     \/ (hash.kind = "string" /\ hash.chars = <<>>)
    THEN [threw |-> FALSE, value |-> <<"0", "x">> \o Zeros(Bytes32Digits)]
  ELSE IF FormatBytes32Throws([kind |-> hash.kind, value |-> hash.number])
    THEN [threw |-> TRUE, value |-> <<>>]
  ELSE [threw |-> FALSE,
        value |-> <<"0", "x">> \o PadEnd64(Substring64(CleanHash(hash.chars)))]

\* What a hash string may begin with.
HashPrefixes == {<<>>, <<"0", "x">>, <<"0">>, <<"x">>, <<"0", "x", "0", "x">>}

\* The strings of up to MaxHashLength characters that are one of the
\* prefixes followed by hex digits a.
HashStrings ==
  {prefix \o [i \in 1..n |-> "a"] :
     prefix \in HashPrefixes, n \in 0..MaxHashLength}

\* The values _formatBytes32 is called with: a hash string, the number of
\* events that index.mjs passes in the place of lastHash, or undefined.
FormatInputs ==
  {[kind |-> "string", chars |-> str, number |-> 0] :
     str \in {h \in HashStrings : Len(h) <= MaxHashLength}}
    \cup {[kind |-> "number", chars |-> <<>>, number |-> n] : n \in 0..MaxPartition}
    \cup {[kind |-> "undefined", chars |-> <<>>, number |-> 0]}

InitFormat ==
  /\ AtRest
  /\ input \in {[fn |-> "formatBytes32", hash |-> hash] : hash \in FormatInputs}
  /\ output = NoCall

\* `const hashBytes32 = this._formatBytes32(lastHash)` in submitBatch.
FormatBytes32 ==
  /\ input.fn = "formatBytes32"
  /\ output = NoCall
  /\ output' = [fn |-> "formatBytes32",
                threw |-> formatBytes32(input.hash).threw,
                value |-> formatBytes32(input.hash).value]
  /\ UNCHANGED <<agentVars, input>>

SpecFormat == InitFormat /\ [][FormatBytes32]_vars

\* ------------------------------------------------------ cleanup on shutdown
\* The orders in which `for (const [domain, state] of this.domainStates)` can
\* visit the tenants loaded so far: a Map iterates in insertion order, the
\* order in which the tenants were first asked for.
LoadedDomains == {d \in Domains : domainStates[d].loaded}
IterationOrders ==
  {order \in [1..Cardinality(LoadedDomains) -> LoadedDomains] :
     \A d \in LoadedDomains : \E i \in DOMAIN order : order[i] = d}

\* `if (state.eventChain.length > 0)` for the entries after position idx:
\* the positions whose tenant has events pending.
PendingAfter(order, idx) ==
  {j \in (idx + 1)..Len(order) : domainStates[order[j]].eventChain # <<>>}

\* The loop of cleanup from the entry after sh.idx up to its next await:
\* entries with an empty chain are passed over, the first one with events
\* pending starts `await this.flushEvents(domain)`; with no such entry left
\* the loop ends and cleanup returns.
CleanupLoop(sh) ==
  LET pending == PendingAfter(sh.order, sh.idx)
  IN IF pending = {}
       THEN /\ shutdown' = [sh EXCEPT !.pc = "complete", !.idx = Len(sh.order),
                                      !.awaiting = 0]
            /\ UNCHANGED <<domainStates, eventsFile, batchFile, historyFile, flushes, now>>
       ELSE LET j == CHOOSE k \in pending : \A l \in pending : k <= l
                domain == sh.order[j]
            IN /\ HasFreeFlush
               /\ shutdown' = [sh EXCEPT !.pc = "await", !.idx = j, !.awaiting = FreeFlush]
               /\ BeginFlush(FreeFlush, domain, domainStates[domain], eventsFile[domain],
                             batchFile[domain], "cleanup")

\* `catch (error) { console.error(...) }` around the awaited flush.
CleanupCatch(sh, domain) == [sh EXCEPT !.failed = @ \cup {domain}]

\* cleanup() is called: the loop runs up to its first await.
CleanupStart ==
  /\ shutdown.pc = "running"
  /\ \E order \in IterationOrders : CleanupLoop([shutdown EXCEPT !.order = order])
  /\ UNCHANGED <<variant, campaignsCache, blockchain, nextId, ipfs, contractCalls,
                 input, output, placementsFile>>

\* The awaited flushEvents call has returned or thrown.
Settled(sh) == sh.pc = "await" /\ flushes[sh.awaiting].pc \in {"done", "threw"}

\* cleanup resumes after `await this.flushEvents(domain)`: a flush that threw
\* goes through the catch block, and the loop goes on.
CleanupResume ==
  /\ Settled(shutdown)
  /\ LET domain == shutdown.order[shutdown.idx]
         sh == IF flushes[shutdown.awaiting].pc = "threw"
                 THEN CleanupCatch(shutdown, domain)
                 ELSE [shutdown EXCEPT !.flushed = @ \cup {domain}]
     IN IF sh.pc = "threw"
          THEN /\ shutdown' = sh
               /\ UNCHANGED <<domainStates, eventsFile, batchFile, historyFile, flushes, now>>
          ELSE CleanupLoop(sh)
  /\ UNCHANGED <<variant, campaignsCache, blockchain, nextId, ipfs, contractCalls,
                 input, output, placementsFile>>

\* The record requests followed up to the exit: a view of each campaign.
ShutdownBodies == {body \in RecordBodies : body.type = "view"}

\* No callback runs between a settled await and its continuation, and none
\* after cleanup has returned and the process has exited.
Serving == shutdown.pc = "running"
ShuttingDown == shutdown.pc = "await" /\ ~Settled(shutdown)

\* POST /record with a valid body, before the shutdown signal or while
\* cleanup waits for a flush; a tenant loaded by a request during cleanup is
\* added at the end of the Map.
RecordUntilExit(domain, body) ==
  /\ Serving \/ ShuttingDown
  /\ RecordValid(domain, body, FALSE)
  /\ shutdown' = IF Serving THEN shutdown
                 ELSE [shutdown EXCEPT !.appended = TRUE,
                                       !.order = IF domainStates[domain].loaded
                                                   THEN @ ELSE Append(@, domain)]
  /\ UNCHANGED <<input, output>>

FetchCampaignsUntilExit(domain) == Serving /\ FetchCampaigns(domain)

\* The process is killed and started again before any shutdown signal,
\* here at a moment when no flush call is in flight.
CrashUntilExit ==
  /\ Serving
  /\ \A f \in FlushIds : flushes[f].pc \notin {"upload", "submit"}
  /\ Crash

\* The flush calls go on until the process exits; disk writes fail only
\* during the shutdown.
UploadReturnUntilExit(f, uploaded, saveThrows) ==
  /\ Serving \/ ShuttingDown
  /\ saveThrows => ShuttingDown
  /\ UploadReturnSave(f, uploaded, saveThrows)

SubmitReturnUntilExit(f, outcome, saveThrows) ==
  /\ Serving \/ ShuttingDown
  /\ saveThrows => ShuttingDown
  /\ SubmitReturnSave(f, outcome, saveThrows)

\* The process serves requests, receives the shutdown signal and runs
\* cleanup; once cleanup has returned the process exits.
NextCleanup ==
  \/ \E d \in Domains, body \in ShutdownBodies : RecordUntilExit(d, body)
  \/ \E d \in Domains : FetchCampaignsUntilExit(d)
  \/ CrashUntilExit
  \/ CleanupStart
  \/ CleanupResume
  \/ \E f \in FlushIds, uploaded \in BOOLEAN, saveThrows \in BOOLEAN :
       UploadReturnUntilExit(f, uploaded, saveThrows)
  \/ \E f \in FlushIds, outcome \in SubmitOutcomes, saveThrows \in BOOLEAN :
       SubmitReturnUntilExit(f, outcome, saveThrows)

SpecCleanup == Init /\ [][NextCleanup]_vars

\* ---------------------------------------------------- progress of a flush
\* One tenant's requests and flushes up to the exit of the process.  The
\* blob store and the chain answer when they answer, if ever: neither
\* uploadToIPFS nor submitBatch sets a timer.  What the event loop guarantees
\* is that the continuation of a settled await runs.
NextProgress ==
  \/ \E d \in Tenants, body \in ShutdownBodies : RecordUntilExit(d, body)
  \/ \E d \in Tenants : FetchCampaignsUntilExit(d)
  \/ CleanupStart
  \/ CleanupResume
  \/ \E f \in FlushIds, uploaded \in BOOLEAN, saveThrows \in BOOLEAN :
       UploadReturnUntilExit(f, uploaded, saveThrows)
  \/ \E f \in FlushIds, outcome \in SubmitOutcomes, saveThrows \in BOOLEAN :
       SubmitReturnUntilExit(f, outcome, saveThrows)

SpecProgress == Init /\ [][NextProgress]_vars /\ WF_vars(CleanupResume)

\* ===================================================================
\* Properties
\* ===================================================================
InFlight(f) == flushes[f].pc \in {"upload", "submit"}

\* The ids of the events of a chain, of a partition list, of the blob store.
ChainIds(chain) == {chain[i].id : i \in 1..Len(chain)}
TookIds(fl) == UNION {ChainIds(fl.parts[k].events) : k \in 1..Len(fl.parts)}
UploadedIds == UNION {ChainIds(ipfs[i].events) : i \in 1..Len(ipfs)}

\* A tenant's ledger as a request would find it: the in-memory state, or
\* what getDomainState would load from the files.
PendingChain(d) ==
  IF domainStates[d].loaded THEN domainStates[d].eventChain ELSE eventsFile[d].events
TailHash(d) ==
  IF domainStates[d].loaded THEN domainStates[d].lastHash ELSE eventsFile[d].lastHash
FlushCount(d) ==
  IF domainStates[d].loaded THEN domainStates[d].flushCount ELSE batchFile[d].flushCount

\* C1 (drain exactly-once): two flush calls of one tenant that run at the
\* same time never both take the same pending event: one of them drains the
\* N pending events and the other finds nothing.
C1_DrainExactlyOnce ==
  \A f, g \in FlushIds :
    ( /\ f # g
      /\ flushes[f].pc \in {"upload", "submit", "done"}
      /\ flushes[g].pc \in {"upload", "submit", "done"}
      /\ flushes[f].domain = flushes[g].domain )
    => TookIds(flushes[f]) \cap TookIds(flushes[g]) = {}

\* C2 (append during a flush): when a flush call completes, every event of
\* the tenant's chain that this call had not taken is still in the pending
\* chain, in memory and in the events file, or is in an uploaded batch.
C2_AppendDuringFlushKept ==
  [][\A f \in FlushIds :
       (InFlight(f) /\ flushes'[f].pc = "done") =>
         LET d == flushes[f].domain
         IN \A id \in ChainIds(domainStates[d].eventChain) \ TookIds(flushes[f]) :
              \/ /\ id \in ChainIds(domainStates'[d].eventChain)
                 /\ id \in ChainIds(eventsFile'[d].events)
              \/ id \in UploadedIds']_vars

\* C3 (a segment is flushed at most once): an append never starts a
\* threshold flush over events that a flush of the tenant still in flight
\* has already taken.
C3_SegmentFlushedOnce ==
  [][\A g \in FlushIds :
       (flushes[g].pc = "idle" /\ flushes'[g].trigger = "threshold") =>
         \A f \in FlushIds :
           (InFlight(f) /\ flushes[f].domain = flushes'[g].domain)
           => TookIds(flushes[f]) \cap TookIds(flushes'[g]) = {}]_vars

\* C4 (failed upload keeps the events): after a flush call has returned,
\* the events of every partition whose upload failed are still in the
\* tenant's events file or are in an uploaded batch (the code has no other
\* store to keep them in).
C4_FailedUploadRetrievable ==
  \A f \in FlushIds :
    flushes[f].pc = "done" =>
      \A k \in 1..Len(flushes[f].results) :
        ~flushes[f].results[k].success =>
          ChainIds(flushes[f].parts[k].events)
            \subseteq (ChainIds(eventsFile[flushes[f].domain].events) \cup UploadedIds)

\* C5 (no duplication across a crash): a batch uploaded after a restart
\* holds no event that a flush call killed by the crash had already
\* uploaded.
C5_NoReuploadAfterCrash ==
  [][\A i \in 1..Len(ipfs), j \in 1..Len(ipfs') :
       (j > Len(ipfs) /\ flushes[ipfs[i].flush].pc = "dead")
       => ChainIds(ipfs[i].events) \cap ChainIds(ipfs'[j].events) = {}]_vars

\* C6 (one BatchRecord per partition): every step of a flush that settles
\* a partition (adds its result) appends exactly one record for that
\* partition's campaign to the tenant's history, with the result's success
\* flag.
C6_RecordPerPartition ==
  [][\A f \in FlushIds :
       Len(flushes'[f].results) = Len(flushes[f].results) + 1 =>
         LET d == flushes'[f].domain
             result == flushes'[f].results[Len(flushes'[f].results)]
             before == historyFile[d].flushes
             after == historyFile'[d].flushes
         IN /\ Len(after) = Len(before) + 1
            /\ SubSeq(after, 1, Len(before)) = before
            /\ after[Len(after)].campaignId = result.campaignId
            /\ after[Len(after)].success = result.success]_vars

\* C7 (idempotent empty flush): a flush call on a tenant whose pending chain
\* is empty returns [] at once and changes neither the pending chain, the
\* tail hash, the flush count, the history, the files nor the blob store.
C7_EmptyFlushNoOp ==
  [][\A f \in FlushIds, d \in Domains :
       ( /\ flushes[f].pc = "idle"
         /\ flushes'[f].pc # "idle"
         /\ flushes'[f].domain = d
         /\ PendingChain(d) = <<>> )
       => /\ flushes'[f].pc = "done"
          /\ flushes'[f].results = <<>>
          /\ PendingChain(d)' = <<>>
          /\ TailHash(d)' = TailHash(d)
          /\ FlushCount(d)' = FlushCount(d)
          /\ UNCHANGED <<eventsFile, batchFile, historyFile, ipfs, contractCalls>>]_vars

\* Two empty flush calls of a tenant have returned, one after the other.
C7_Witness ==
  \E f, g \in FlushIds :
    /\ f # g
    /\ flushes[f].pc = "done" /\ flushes[f].parts = <<>> /\ flushes[f].results = <<>>
    /\ flushes[g].pc = "done" /\ flushes[g].parts = <<>> /\ flushes[g].results = <<>>

\* C8 (threshold trigger): in a run of appends only (no manual flush, no
\* flush killed by a restart), fewer than Threshold appends start no flush
\* and leave all of them pending; the Threshold-th append starts exactly one
\* flush, and once that flush has returned the pending chain is empty and
\* the history holds one record per campaign of the segment.
C8_ThresholdTrigger ==
  \A d \in Tenants :
    (\A f \in FlushIds : flushes[f].trigger # "manual" /\ flushes[f].pc # "dead") =>
      /\ nextId < Threshold =>
           /\ Len(PendingChain(d)) = nextId
           /\ \A f \in FlushIds : flushes[f].pc = "idle"
      /\ nextId = Threshold =>
           /\ Cardinality({f \in FlushIds : flushes[f].pc # "idle"}) = 1
           /\ \A f \in FlushIds :
                flushes[f].pc = "done" =>
                  /\ PendingChain(d) = <<>>
                  /\ Len(flushes[f].parts) >= 1
                  /\ Len(historyFile[d].flushes) = Len(flushes[f].parts)

\* previousHash of every entry after the first is the hash of the entry
\* before it.
Linked(chain) ==
  \A i \in 2..Len(chain) : chain[i].previousHash = chain[i - 1].hash

\* C9 (chain linkage): in every reachable state every tenant's pending
\* chain is linked, in memory, in the events file and in the batch file.
C9_ChainLinked ==
  \A d \in Domains :
    /\ domainStates[d].loaded => Linked(domainStates[d].eventChain)
    /\ Linked(eventsFile[d].events)
    /\ Linked(batchFile[d].chain)

\* After a restart that killed a flush, the events file holds a chain of
\* two or more events that starts a segment after an earlier flush.
C9_Witness ==
  \E d \in Domains :
    /\ ~domainStates[d].loaded
    /\ Len(eventsFile[d].events) >= 2
    /\ eventsFile[d].events[1].previousHash # GenesisHash
    /\ \E f \in FlushIds : flushes[f].pc = "dead"

\* The flush calls of a tenant that drained a non-empty chain and returned.
CompletedFlushes(d) ==
  {f \in FlushIds : flushes[f].pc = "done" /\ flushes[f].domain = d /\ flushes[f].parts # <<>>}

\* A digest of a clock reading, as flushEvents sets it.
IsClockHash(h) == Len(h) = 2 /\ h[1] = "time" /\ h[2] \in 0..MaxTime

\* C10 as claimed: the first entry of every pending chain links to the
\* genesis constant.
C10_FirstLinksToGenesis ==
  \A d \in Domains :
    PendingChain(d) # <<>> => PendingChain(d)[1].previousHash = GenesisHash

\* C10 as amended: the first entry of a pending chain links to the genesis
\* constant as long as no flush of the tenant has completed; after a
\* completed flush it links to the clock-derived tail hash that a flush set.
C10_FirstLinksToSegmentStart ==
  \A d \in Domains :
    PendingChain(d) # <<>> =>
      IF CompletedFlushes(d) = {}
        THEN PendingChain(d)[1].previousHash = GenesisHash
        ELSE IsClockHash(PendingChain(d)[1].previousHash)

\* A new segment has begun after a completed flush.
C10_Witness ==
  \E d \in Domains :
    /\ CompletedFlushes(d) # {}
    /\ PendingChain(d) # <<>>
    /\ PendingChain(d)[1].previousHash # GenesisHash

\* C11 (durable append): every accepted record request leaves the tenant's
\* chain extended by the new event, linked to the tail the request found (in
\* memory, or reloaded from the events file after a restart), and leaves
\* the events file holding exactly the in-memory chain and tail hash, so
\* that getDomainState after a restart reloads the same chain and tail.
C11_DurableAppend ==
  [][nextId' = nextId + 1 =>
       \E d \in Domains :
         LET state == domainStates'[d]
             chain == state.eventChain
             last == chain[Len(chain)]
         IN /\ state.loaded
            /\ chain # <<>>
            /\ chain = Append(PendingChain(d), last)
            /\ last.id = nextId'
            /\ last.previousHash = TailHash(d)
            /\ state.lastHash = last.hash
            /\ eventsFile'[d].events = chain
            /\ eventsFile'[d].lastHash = state.lastHash
            /\ PendingChain(d)' = chain
            /\ TailHash(d)' = last.hash]_vars

\* A restart came while the chain ended with an event that a flush (killed
\* by the restart) had taken; the next append has reloaded the chain from
\* the events file and linked its event behind it.
C11_Witness ==
  \E d \in Domains, f \in FlushIds :
    /\ flushes[f].pc = "dead"
    /\ flushes[f].domain = d
    /\ domainStates[d].loaded
    /\ LET chain == domainStates[d].eventChain
       IN /\ Len(chain) >= 2
          /\ chain[Len(chain) - 1].id \in TookIds(flushes[f])
          /\ chain[Len(chain)].id \notin TookIds(flushes[f])
          /\ chain[Len(chain)].previousHash = chain[Len(chain) - 1].hash
          /\ eventsFile[d] = SavedEvents(domainStates[d])

\* The wallet a tenant's own config.ini provides for settlement.
OwnWallet(d) == IF DomainHasWallet(d) THEN d ELSE "none"

\* C12 (tenant isolation): a step that changes one tenant's pending chain,
\* tail hash, flush count or history leaves those of every other tenant
\* unchanged, and every submission made for a tenant's partition is signed
\* by the wallet of that tenant's own configuration (no gateway credentials
\* initialised from another tenant's config take part in it).
C12_TenantIsolation ==
  [][/\ \A a, b \in Domains :
          ( /\ a # b
            /\ <<PendingChain(a), TailHash(a), FlushCount(a), historyFile[a]>>'
                 # <<PendingChain(a), TailHash(a), FlushCount(a), historyFile[a]>> )
          => <<PendingChain(b), TailHash(b), FlushCount(b), historyFile[b]>>'
               = <<PendingChain(b), TailHash(b), FlushCount(b), historyFile[b]>>
     /\ \A i \in 1..Len(contractCalls') :
          i > Len(contractCalls) =>
            contractCalls'[i].wallet = OwnWallet(contractCalls'[i].domain)]_vars

\* The addresses that count towards the reach of a partition: those with
\* at least one event that is a view, verified and at or above the floor.
CountedAddresses(events) ==
  {a \in Addresses : \E i \in 1..Len(events) :
     /\ events[i].userAddress = a
     /\ events[i].type = "view"
     /\ events[i].verified
     /\ events[i].notabotScore >= 10}

\* C13 (reach): the reach computed for a partition is the number of
\* distinct actor addresses among its events with type view, verified true
\* and trust score at least 10; an address viewing several times counts
\* once, and the clicks of the partition do not change the value.
C13_ReachCorrect ==
  output.fn = "reach" =>
    /\ output.reach = Cardinality(CountedAddresses(input.events))
    /\ output.reach = Cardinality(CountedAddresses(ViewsOf(input.events)))
    /\ output.reach <= Cardinality(Addresses)

\* Reach 1 was computed for a partition in which one address has two
\* counted views and another address has only a verified click.
C13_Witness ==
  /\ output.fn = "reach"
  /\ output.reach = 1
  /\ \E a, b \in Addresses, i, j, k \in 1..Len(input.events) :
        /\ a # b /\ i # j
        /\ input.events[i] = [type |-> "view", userAddress |-> a,
                              verified |-> TRUE, notabotScore |-> 10]
        /\ input.events[j] = input.events[i]
        /\ input.events[k] = [type |-> "click", userAddress |-> b,
                              verified |-> TRUE, notabotScore |-> 10]

\* C14 (reach submitted): every transaction sent to a campaign contract for
\* a partition carries a reach value, equal to the reach computed over the
\* partition's events, together with the content address of the partition's
\* upload and its numbers of views and clicks.
C14_ReachSubmitted ==
  \A i \in 1..Len(contractCalls) :
    LET call == contractCalls[i]
        events == ipfs[call.ipfsCID].events
    IN /\ call.ipfsCID \in 1..Len(ipfs)
       /\ call.impressions = CountType(events, "view")
       /\ call.clicks = CountType(events, "click")
       /\ "reach" \in DOMAIN call
       /\ call.reach = Reach(events)

\* C15 (degraded settlement): when the upload of a partition succeeds while
\* the campaign has no contract address in the cache or the gateway is
\* disabled, the step sends no transaction and appends to the tenant's
\* history one record for the partition with success true, the content
\* address of the upload and no transaction hash.
C15_DegradedSettlement ==
  [][\A j \in 1..Len(ipfs') :
       LET blob == ipfs'[j]
           before == historyFile[blob.domain].flushes
           after == historyFile'[blob.domain].flushes
           degraded ==
             \/ \A c \in campaignsCache :
                  c.id = blob.campaignId => c.contractAddress = "none"
             \/ ~blockchain.enabled
       IN (j > Len(ipfs) /\ degraded) =>
            /\ contractCalls' = contractCalls
            /\ Len(after) = Len(before) + 1
            /\ SubSeq(after, 1, Len(before)) = before
            /\ after[Len(after)].campaignId = blob.campaignId
            /\ after[Len(after)].success
            /\ after[Len(after)].ipfsHash = j
            /\ after[Len(after)].ipfsHash # NoCid
            /\ "txHash" \notin DOMAIN after[Len(after)]]_vars

\* A flush of a tenant has recorded a partition of c1 (which has a contract
\* in the cache) while the gateway was disabled, and a partition of c2
\* (which has none); no transaction was sent.
C15_Witness ==
  \E d \in Domains :
    /\ campaignsCache = FactoryContracts
    /\ ~blockchain.enabled
    /\ contractCalls = <<>>
    /\ \E i, j \in 1..Len(historyFile[d].flushes) :
          /\ historyFile[d].flushes[i].campaignId = "c1"
          /\ historyFile[d].flushes[i].success
          /\ historyFile[d].flushes[j].campaignId = "c2"
          /\ historyFile[d].flushes[j].success

\* The history record of a partition that was uploaded as blob cid and
\* settled off-chain only (C15).
OffChainRecord(cid) ==
  [campaignId |-> ipfs[cid].campaignId,
   eventCount |-> Len(ipfs[cid].events),
   views |-> CountType(ipfs[cid].events, "view"),
   clicks |-> CountType(ipfs[cid].events, "click"),
   ipfsHash |-> cid,
   success |-> TRUE]

\* C16 (contract rejection recorded): the step in which the contract's
\* rejection of a partition's transaction comes back appends one record for
\* the partition that reports the upload as successful and differs from the
\* record an off-chain-only settlement of the same upload leaves (it marks
\* the failed settlement and its reason).
C16_RejectionRecorded ==
  [][\A k \in 1..Len(contractCalls) :
       (contractCalls[k].outcome = "pending" /\ contractCalls'[k].outcome = "rejected") =>
         LET call == contractCalls[k]
             before == historyFile[call.domain].flushes
             after == historyFile'[call.domain].flushes
         IN /\ Len(after) = Len(before) + 1
            /\ after[Len(after)].campaignId = call.campaignId
            /\ after[Len(after)].ipfsHash = call.ipfsCID
            /\ after[Len(after)].success
            /\ after[Len(after)] # OffChainRecord(call.ipfsCID)]_vars

\* The ids of the events a transaction was sent for: those of the blob it
\* names.
CallIds(call) == ChainIds(ipfs'[call.ipfsCID].events)

\* C17 (no automatic retry): once the contract has rejected the transaction
\* of a partition, no later step (of a later or an overlapping flush, before
\* or after a restart) sends a transaction for any event of that partition.
C17_NoRetryAfterRejection ==
  [][\A k \in 1..Len(contractCalls), j \in 1..Len(contractCalls') :
       (j > Len(contractCalls) /\ contractCalls[k].outcome = "rejected")
       => CallIds(contractCalls[k]) \cap CallIds(contractCalls'[j]) = {}]_vars

\* C18 (submitBatch never throws): a call of submitBatch never ends with an
\* exception; with the gateway disabled or no contract address it returns
\* null and has made no contract call; otherwise it returns either the
\* receipt {txHash, blockNumber, ...} of a confirmed transaction or null.
C18_SubmitNeverThrows ==
  output.fn = "submitBatch" =>
    /\ output.pc # "threw"
    /\ output.pc = "returned" =>
         IF ~input.enabled \/ input.contractAddress = "none"
           THEN output.result = "null" /\ ~output.sent
           ELSE \/ /\ output.result = "receipt"
                   /\ output.sent /\ output.txHash # 0 /\ output.blockNumber # 0
                \/ output.result = "null"

\* submitBatch has returned null after the contract rejected the
\* transaction it had sent.
C18_Witness ==
  /\ output.fn = "submitBatch"
  /\ output.pc = "returned"
  /\ output.result = "null"
  /\ output.sent
  /\ output.error = "Budget exceeded"

\* C19 (fixed width of the tail hash): for every value it is called with,
\* _formatBytes32 returns '0x' followed by exactly 64 characters: the hash
\* without its optional leading '0x', cut to 64 characters and padded on
\* the right with zeros.
C19_FormatFixedWidth ==
  output.fn = "formatBytes32" =>
    /\ ~output.threw
    /\ Len(output.value) = 66
    /\ output.value[1] = "0" /\ output.value[2] = "x"
    /\ LET str == input.hash.chars
           digits == IF Len(str) >= 2 /\ SubSeq(str, 1, 2) = <<"0", "x">>
                       THEN SubSeq(str, 3, Len(str)) ELSE str
       IN \A i \in 1..64 :
            output.value[2 + i] = IF i <= Len(digits) THEN digits[i] ELSE "0"

\* C20 (validation errors stay out of the ledger): a record request whose
\* body has no campaignId, no type, or a type other than view and click is
\* answered with an error and changes neither the tenant's in-memory state,
\* its pending chain and tail hash, its events, batch, history and
\* placements files nor the flushes, uploads and transactions.
C20_InvalidRejected ==
  [][( /\ input.fn = "record"
       /\ input'.seq = input.seq + 1
       /\ \/ input'.body.campaignId = "none"
          \/ input'.body.type = "none"
          \/ input'.body.type \notin {"view", "click"} )
     => /\ output' = [fn |-> "record", status |-> 400]
        /\ \A d \in Domains :
             /\ PendingChain(d)' = PendingChain(d)
             /\ TailHash(d)' = TailHash(d)
        /\ UNCHANGED <<domainStates, eventsFile, batchFile, historyFile,
                       placementsFile, flushes, nextId, ipfs, contractCalls>>]_vars

\* A request of an unknown type for placement p1 has been answered 400 while
\* the tenant had one pending event, one short of the threshold.
C20_Witness ==
  /\ input.fn = "record"
  /\ input.body.type = "hover"
  /\ output = [fn |-> "record", status |-> 400]
  /\ \E d \in Tenants :
        /\ Len(PendingChain(d)) = Threshold - 1
        /\ \A f \in FlushIds : flushes[f].pc = "idle"

\* A body that does not prove its address: no address, no signature, a
\* malformed signature, or a signer other than the address it names.
Unproven(body) ==
  \/ body.userAddress = "none"
  \/ body.signature.signer \in {"none", "malformed"}
  \/ <<body.signature.signer, body.userAddress>>
       \notin {<<"0xA", "0xa">>, <<"0xA", "0xA">>, <<"0xB", "0xb">>, <<"0xB", "0xB">>}

SignedThisMessage(call) ==
  /\ call.signature.campaignId = call.campaignId
  /\ call.signature.type = call.type
  /\ call.signature.timestamp = call.timestamp

\* C22 (signature verifier): verifyEventSignature never throws; it returns
\* verified true only if the signature was made over the message
\* adnet:<campaignId>:<type>:<timestamp> by the claimed address (compared
\* without regard to case), and then returns that address in lower case;
\* without address, without signature or with a signature from which no
\* address can be recovered it returns verified false and no address.
C22_VerifierSound ==
  output.fn = "verify" =>
    /\ ~output.threw
    /\ output.verified =>
         /\ SignedThisMessage(input)
         /\ <<input.signature.signer, input.userAddress>>
              \in {<<"0xA", "0xa">>, <<"0xA", "0xA">>, <<"0xB", "0xb">>}
         /\ output.address \in {"0xa", "0xb"}
    /\ ~output.verified => output.address = "none"
    /\ ( \/ input.userAddress = "none"
         \/ input.signature.signer \in {"none", "malformed"} )
       => ~output.verified /\ output.address = "none"

\* The claimed address 0xa was verified against a signature by 0xA (its
\* mixed-case form) over the message of the call.
C22_Witness ==
  /\ output.fn = "verify"
  /\ output.verified
  /\ output.address = "0xa"
  /\ input.userAddress = "0xa"
  /\ input.signature.signer = "0xA"

\* C23 (success once appended): every record request that has appended its
\* event to the tenant's chain and saved it in the events file is answered
\* with status success, whatever else happens in the request.
C23_SuccessOnceAppended ==
  [][( /\ input.fn = "record"
       /\ input'.seq = input.seq + 1
       /\ \E d \in Domains :
            /\ eventsFile'[d].events # <<>>
            /\ eventsFile'[d].events = Append(PendingChain(d),
                   eventsFile'[d].events[Len(eventsFile'[d].events)])
            /\ eventsFile'[d].events[Len(eventsFile'[d].events)].id = nextId + 1 )
     => output' = [fn |-> "record", status |-> 200]]_vars

\* C24 (shutdown flush): cleanup never throws, and when it has returned
\* with no event appended meanwhile, no tenant has events pending.
C24_ShutdownFlushesAll ==
  /\ shutdown.pc # "threw"
  /\ (shutdown.pc = "complete" /\ ~shutdown.appended)
       => \A d \in Domains : PendingChain(d) = <<>>

\* A sequence that starts with the whole of another.
IsPrefix(short, long) ==
  /\ Len(short) <= Len(long)
  /\ \A i \in 1..Len(short) : long[i] = short[i]

\* C25 (history is append-only): no step makes a tenant's history list
\* shorter or changes or removes a record already in it.
C25_HistoryAppendOnly ==
  [][\A d \in Domains : IsPrefix(historyFile[d].flushes, historyFile'[d].flushes)]_vars

\* Two flush calls of d1 that took the same events have both returned, and
\* the history holds a record of each.
C25_Witness ==
  /\ \E f, g \in FlushIds :
       /\ f # g
       /\ flushes[f].pc = "done" /\ flushes[g].pc = "done"
       /\ flushes[f].domain = "d1" /\ flushes[g].domain = "d1"
       /\ TookIds(flushes[f]) \cap TookIds(flushes[g]) # {}
  /\ Len(historyFile["d1"].flushes) >= 2

\* C26 (a flush returns): every flush call that waits for the blob store
\* or for the chain eventually returns or throws, unless the process exits
\* first.
C26_FlushReturns ==
  \A f \in FlushIds :
    (flushes[f].pc \in {"upload", "submit"})
      ~> (flushes[f].pc \in {"done", "threw"} \/ shutdown.pc = "complete")

\* The hashes of the events a flush call took.
TookHashes(fl) ==
  UNION {{fl.parts[k].events[i].hash : i \in 1..Len(fl.parts[k].events)} :
           k \in 1..Len(fl.parts)}

\* C27 (draining resets the tail hash): when a flush call of a non-empty
\* chain returns, the tenant's tail hash, in memory and in events.json, is
\* a digest of the clock: not the genesis constant and not the hash of any
\* event the call took.
C27_DrainResetsTail ==
  [][\A f \in FlushIds :
       ( /\ flushes[f].pc \in {"upload", "submit"}
         /\ flushes'[f].pc = "done" )
       => LET d == flushes[f].domain
          IN /\ domainStates'[d].loaded
             /\ domainStates'[d].lastHash # GenesisHash
             /\ domainStates'[d].lastHash \notin TookHashes(flushes[f])
             /\ IsClockHash(domainStates'[d].lastHash)
             /\ eventsFile'[d].lastHash = domainStates'[d].lastHash]_vars

\* A flush of d1 has returned and left an empty chain under a clock-derived
\* tail hash that none of its events carries.
C27_Witness ==
  \E f \in FlushIds :
    /\ flushes[f].pc = "done"
    /\ flushes[f].domain = "d1"
    /\ flushes[f].parts # <<>>
    /\ domainStates["d1"].loaded
    /\ domainStates["d1"].eventChain = <<>>
    /\ IsClockHash(domainStates["d1"].lastHash)
    /\ domainStates["d1"].lastHash \notin TookHashes(flushes[f])

\* C28 (flushCount counts drains): in every state a tenant's flushCount, in
\* memory and in batch.json, is the number of flush calls of a non-empty
\* chain that have returned.
C28_FlushCountCountsDrains ==
  \A d \in Domains :
    /\ FlushCount(d) = Cardinality(CompletedFlushes(d))
    /\ batchFile[d].flushCount = Cardinality(CompletedFlushes(d))

\* chainIndex of every entry is its position counted from 0, and the tail
\* hash kept with a non-empty chain is the hash of its last entry.
IndexedAndTailed(chain, lastHash) ==
  /\ \A i \in 1..Len(chain) : chain[i].chainIndex = i - 1
  /\ chain # <<>> => lastHash = chain[Len(chain)].hash

\* C29 (index and tail): in every reachable state every tenant's pending
\* chain, in memory, in events.json and in batch.json, numbers its entries
\* by position and, when non-empty, ends at the tenant's tail hash.
C29_IndexAndTail ==
  \A d \in Domains :
    /\ domainStates[d].loaded =>
         IndexedAndTailed(domainStates[d].eventChain, domainStates[d].lastHash)
    /\ IndexedAndTailed(eventsFile[d].events, eventsFile[d].lastHash)
    /\ IndexedAndTailed(batchFile[d].chain, batchFile[d].lastHash)

\* A flush of d1 has returned and the segment after it starts again at
\* index 0, linked to the clock-derived tail hash.
C29_Witness ==
  /\ domainStates["d1"].loaded
  /\ Len(domainStates["d1"].eventChain) >= 1
  /\ domainStates["d1"].eventChain[1].chainIndex = 0
  /\ IsClockHash(domainStates["d1"].eventChain[1].previousHash)
  /\ CompletedFlushes("d1") # {}

Partitioned(chain, parts) ==
  /\ \A i \in 1..Len(chain) :
       Cardinality({<<k, j>> \in (1..Len(parts)) \X (1..Len(chain)) :
                      j <= Len(parts[k].events) /\ parts[k].events[j] = chain[i]}) = 1
  /\ \A k \in 1..Len(parts) :
       /\ \A j \in 1..Len(parts[k].events) :
            /\ parts[k].events[j].campaignId = parts[k].campaignId
            /\ \E i \in 1..Len(chain) : chain[i] = parts[k].events[j]
       /\ \A i, j \in 1..Len(parts[k].events) :
            i < j => parts[k].events[i].chainIndex < parts[k].events[j].chainIndex
       /\ parts[k].views + parts[k].clicks = Len(parts[k].events)

\* C31 (partitioning): the grouping of flushEvents returns partitions that
\* split the pending chain by campaignId.
C31_Partitioning ==
  output.fn = "group" => ~output.threw /\ Partitioned(input.chain, output.parts)

\* The number of events of a partition that satisfy a condition.
CountWhere(events, Test(_)) == Cardinality({i \in 1..Len(events) : Test(events[i])})

\* C32 (reach exclusion counts): for every partition the unverified counter
\* is the number of its events with verified false, the low-trust counter
\* the number of its verified views below the floor, and every view either
\* counts towards reach or is in exactly one of the two counters.
C32_ExclusionCounts ==
  output.fn = "reach" =>
    /\ output.unverifiedViews = CountWhere(input.events, LAMBDA e : ~e.verified)
    /\ output.lowNotabotViews =
         CountWhere(input.events, LAMBDA e : /\ e.type = "view" /\ e.verified
                                             /\ e.notabotScore < MIN_NOTABOT_SCORE)
    /\ CountWhere(input.events, LAMBDA e : e.type = "view")
         = CountWhere(input.events, LAMBDA e : /\ e.type = "view" /\ e.verified
                                               /\ e.notabotScore >= MIN_NOTABOT_SCORE)
           + output.unverifiedViews + output.lowNotabotViews

\* C33 (placement is not hashed): two events that differ only in their
\* placement, chained onto equal ledgers, get the same hash and leave the
\* same tail hash.
C33_PlacementNotHashed ==
  output.fn = "hash" =>
    /\ output.first.eventChain[1].hash = output.second.eventChain[1].hash
    /\ output.first.lastHash = output.second.lastHash

\* The events a flush call took, and the hash of the last of them in the
\* chain (ids grow along a chain).
TookEvents(fl) ==
  UNION {{fl.parts[k].events[i] : i \in 1..Len(fl.parts[k].events)} :
           k \in 1..Len(fl.parts)}
SegmentTail(fl) ==
  (CHOOSE e \in TookEvents(fl) : \A o \in TookEvents(fl) : o.id <= e.id).hash

\* C34 (tail hash of the segment): every data wallet uploaded by a flush and
\* every transaction sent for one of its partitions carries, as lastHash,
\* the hash of the last event of the segment that flush took.
C34_SegmentTailSettled ==
  /\ \A w \in 1..Len(ipfs) : ipfs[w].lastHash = SegmentTail(flushes[ipfs[w].flush])
  /\ \A c \in 1..Len(contractCalls) :
       contractCalls[c].lastHash
         = SegmentTail(flushes[ipfs[contractCalls[c].ipfsCID].flush])

\* C35 (on-chain only with a cached contract and an enabled gateway): a
\* step sends a transaction for a partition only when the campaigns cache
\* holds the partition's campaign with a contract address, to which the
\* transaction goes, and the gateway is enabled; no step of a flush changes
\* the cache; with an empty cache no transaction is sent.
C35_SubmitNeedsCacheAndGateway ==
  [][ /\ Len(contractCalls') > Len(contractCalls) =>
           LET call == contractCalls'[Len(contractCalls')]
           IN /\ blockchain.enabled
              /\ \E c \in campaignsCache :
                   /\ c.id = call.campaignId
                   /\ c.contractAddress # "none"
                   /\ c.contractAddress = call.contractAddress
      /\ flushes' # flushes => campaignsCache' = campaignsCache
      /\ campaignsCache = {} => Len(contractCalls') = Len(contractCalls) ]_vars

\* A partition of campaign c1 was uploaded and settled off-chain only, and
\* another partition of c1 was uploaded and submitted to c1's contract.
C35_Witness ==
  \E v, w \in 1..Len(ipfs) :
    /\ ipfs[v].campaignId = "c1" /\ ipfs[w].campaignId = "c1"
    /\ \A c \in 1..Len(contractCalls) : contractCalls[c].ipfsCID # v
    /\ \E c \in 1..Len(contractCalls) : contractCalls[c].ipfsCID = w
    /\ \A f \in FlushIds : flushes[f].pc \in {"done", "idle"}

\* C36 (below the threshold at rest): a tenant none of whose flush calls is
\* waiting has fewer pending events than the threshold.
C36_BelowThresholdAtRest ==
  \A d \in Domains :
    (\A f \in FlushIds : ~(InFlight(f) /\ flushes[f].domain = d))
      => Len(PendingChain(d)) < Threshold

\* An event that is unverified and carries no address, or is verified and
\* carries a lower-case address.
ProvenOrAnonymous(event) ==
  \/ ~event.verified /\ event.userAddress = "none"
  \/ /\ event.verified
     /\ event.userAddress # "none"
     /\ event.userAddress = toLowerCase(event.userAddress)

\* Every event of a sequence is proven or anonymous.
AllProven(events) == \A i \in 1..Len(events) : ProvenOrAnonymous(events[i])

\* C37 (no unproven actor address): after every step each event of a pending
\* chain, in memory or in events.json, and of an uploaded batch is proven or
\* anonymous, and the event a record request has appended carries, when
\* verified, the lower-cased signer recovered from the request's signature.
C37_NoUnprovenAddress ==
  [][ /\ \A d \in Domains :
           /\ domainStates'[d].loaded => AllProven(domainStates'[d].eventChain)
           /\ AllProven(eventsFile'[d].events)
      /\ \A w \in 1..Len(ipfs') : AllProven(ipfs'[w].events)
      /\ (input'.seq = input.seq + 1 /\ nextId' = nextId + 1) =>
           \E d \in Domains :
             LET chain == eventsFile'[d].events
                 event == chain[Len(chain)]
                 body == input'.body
             IN /\ chain # <<>>
                /\ event.id = nextId'
                /\ event.verified =>
                     /\ body.signature # NoSignature
                     /\ event.userAddress
                          = toLowerCase(RecoveredAddress(body.signature, body.campaignId,
                                                         body.type, body.timestamp)) ]_vars

\* A verified event with a lower-case address and an anonymous event, whose
\* request claimed an address it did not prove, have been uploaded.
C37_Witness ==
  /\ \E w \in 1..Len(ipfs), i \in 1..MaxEvents :
       /\ i <= Len(ipfs[w].events)
       /\ ipfs[w].events[i].verified
       /\ ipfs[w].events[i].userAddress = "0xa"
  /\ \E w \in 1..Len(ipfs), i \in 1..MaxEvents :
       /\ i <= Len(ipfs[w].events)
       /\ ~ipfs[w].events[i].verified
       /\ ipfs[w].events[i].campaignId = "c2"

\* The sum of a field over the records of a history.
RECURSIVE SumOf(_, _)
SumOf(records, field) ==
  IF records = <<>> THEN 0
  ELSE records[Len(records)][field] + SumOf(SubSeq(records, 1, Len(records) - 1), field)

\* C38 (history totals): in every reachable state the totals of a tenant's
\* history are the sums of eventCount, views and clicks over its records,
\* and totalEvents is totalViews plus totalClicks.
C38_HistoryTotals ==
  \A d \in Domains :
    LET history == historyFile[d]
    IN /\ history.totalEvents = SumOf(history.flushes, "eventCount")
       /\ history.totalViews = SumOf(history.flushes, "views")
       /\ history.totalClicks = SumOf(history.flushes, "clicks")
       /\ history.totalEvents = history.totalViews + history.totalClicks

\* The history of d1 holds two records or more, with views and clicks.
C38_Witness ==
  /\ Len(historyFile["d1"].flushes) >= 2
  /\ historyFile["d1"].totalViews >= 1
  /\ historyFile["d1"].totalClicks >= 1
  /\ historyFile["d1"].totalEvents >= 3

====
